---- MODULE Spec2Model ----
(***************************************************************************)
(* A model of zerowrap: context-carried zerolog loggers, field enrichment, *)
(* struct-tag field extraction, level parsing and the error-wrap helpers.  *)
(*                                                                         *)
(* Strings are sequences of runes (Unicode code points), so that the       *)
(* character arithmetic of the code (r >= 'A', r + 32, splitting at ',')   *)
(* is modelled as written.                                                 *)
(***************************************************************************)
EXTENDS Integers, Sequences, FiniteSets, TLC

VARIABLES
    ctxs,      \* the context values created so far; ctxs[1] is context.Background()
    logs,      \* the Logger handles the program holds
    written,   \* the log events written so far, oldest first
    last,      \* the last call made: its name, arguments and results
    call,      \* the pending call of a pure function: its name and argument
    result     \* the result of the pure function once it has run

vars == <<ctxs, logs, written, last, call, result>>

----------------------------------------------------------------------------
\* Bounds of the model

MaxLogs == 2        \* Logger handles held at once
MaxCtxs == 4        \* context values created
MaxWritten == 2     \* events written
MaxFields == 1      \* fields attached to one logger

----------------------------------------------------------------------------
\* String literals

s_empty == <<>>
s_sep == <<58, 32>>                                    \* ": "
s_eof == <<101, 111, 102>>                             \* "eof"
s_open == <<111, 112, 101, 110>>                       \* "open"
s_x == <<120>>                                         \* "x"
s_k == <<107>>                                         \* "k"
s_id == <<105, 100>>                                   \* "id"
s_trace == <<116, 114, 97, 99, 101>>                   \* "trace"
s_debug == <<100, 101, 98, 117, 103>>                  \* "debug"
s_info == <<105, 110, 102, 111>>                       \* "info"
s_warn == <<119, 97, 114, 110>>                        \* "warn"
s_warning == <<119, 97, 114, 110, 105, 110, 103>>      \* "warning"
s_error == <<101, 114, 114, 111, 114>>                 \* "error"
s_fatal == <<102, 97, 116, 97, 108>>                   \* "fatal"
s_panic == <<112, 97, 110, 105, 99>>                   \* "panic"
s_disabled == <<100, 105, 115, 97, 98, 108, 101, 100>> \* "disabled"
s_console == <<99, 111, 110, 115, 111, 108, 101>>      \* "console"
s_json == <<106, 115, 111, 110>>                       \* "json"

----------------------------------------------------------------------------
\* zerolog levels, as the code names them

TraceLevel == -1
DebugLevel == 0
InfoLevel == 1
WarnLevel == 2
ErrorLevel == 3
FatalLevel == 4
PanicLevel == 5
Disabled == 7

\* the levels an event can be emitted at
EventLevels == {TraceLevel, DebugLevel, InfoLevel, WarnLevel, ErrorLevel,
                FatalLevel, PanicLevel}

----------------------------------------------------------------------------
\* strings.ToLower: ASCII letters, and the Latin-1 capital E acute (201) as
\* the one non-ASCII uppercase letter of the model's alphabet.

RuneToLower(r) ==
    IF r >= 65 /\ r <= 90 THEN r + 32
    ELSE IF r = 201 THEN 233
    ELSE r

ToLower(s) == [i \in 1..Len(s) |-> RuneToLower(s[i])]

\* parseLevel converts a level string to zerolog.Level.
parseLevel_noWarning(level) ==
    LET l == ToLower(level) IN
    CASE l = s_trace -> TraceLevel
      [] l = s_debug -> DebugLevel
      [] l = s_info \/ l = s_empty -> InfoLevel
      [] l = s_warn -> WarnLevel
      [] l = s_error -> ErrorLevel
      [] l = s_fatal -> FatalLevel
      [] l = s_panic -> PanicLevel
      [] l = s_disabled -> Disabled
      [] OTHER -> InfoLevel

parseLevel(level) ==
    LET l == ToLower(level) IN
    CASE l = s_trace -> TraceLevel
      [] l = s_debug -> DebugLevel
      [] l = s_info \/ l = s_empty -> InfoLevel
      [] l = s_warn \/ l = s_warning -> WarnLevel
      [] l = s_error -> ErrorLevel
      [] l = s_fatal -> FatalLevel
      [] l = s_panic -> PanicLevel
      [] l = s_disabled -> Disabled
      [] OTHER -> InfoLevel

----------------------------------------------------------------------------
\* Loggers.  A zerolog.Logger is a value: its sinks w, its minimum level,
\* the fields baked into its context and its hooks.

\* os.Stderr
Stderr == "stderr"

\* time.RFC3339
RFC3339 == "2006-01-02T15:04:05Z07:00"

\* New with the format test reduced to format == "console"
New_emptyIsRaw(cfg) ==
    LET output == IF cfg.Output = "nil" THEN Stderr ELSE cfg.Output
        timeFormat == IF cfg.TimeFormat = "" THEN RFC3339 ELSE cfg.TimeFormat
        format == ToLower(cfg.Format)
        sink == IF format = s_console
                THEN [kind |-> "console", Out |-> output, TimeFormat |-> timeFormat]
                ELSE [kind |-> "raw", Out |-> output, TimeFormat |-> ""]
        level == parseLevel(cfg.Level)
    IN  [w |-> <<sink>>, level |-> level, context |-> <<>>,
         hooks |-> IF cfg.Caller THEN <<"timestamp", "caller">> ELSE <<"timestamp">>]

\* zerolog.New(w).Level(level).With().Timestamp().Logger(), and
\* logger.With().Caller().Logger() when cfg.Caller is set.
New(cfg) ==
    LET output == IF cfg.Output = "nil" THEN Stderr ELSE cfg.Output
        timeFormat == IF cfg.TimeFormat = "" THEN RFC3339 ELSE cfg.TimeFormat
        format == ToLower(cfg.Format)
        sink == IF format = s_console \/ format = s_empty
                THEN [kind |-> "console", Out |-> output, TimeFormat |-> timeFormat]
                ELSE [kind |-> "raw", Out |-> output, TimeFormat |-> ""]
        level == parseLevel(cfg.Level)
    IN  [w |-> <<sink>>, level |-> level, context |-> <<>>,
         hooks |-> IF cfg.Caller THEN <<"timestamp", "caller">> ELSE <<"timestamp">>]

\* Config{Level: level, Format: format}: the other fields keep their zero value
Config(level, format) ==
    [Level |-> level, Format |-> format, TimeFormat |-> "", Output |-> "nil", Caller |-> FALSE]

s_LOG_LEVEL == <<95, 76, 79, 71, 95, 76, 69, 86, 69, 76>>        \* "_LOG_LEVEL"
s_LOG_FORMAT == <<95, 76, 79, 71, 95, 70, 79, 82, 77, 65, 84>>   \* "_LOG_FORMAT"

\* os.Getenv(name): the value of the variable, empty when it is not set.
\* The environment is a function from the names that are set to their values.
Getenv(env, name) == IF name \in DOMAIN env THEN env[name] ELSE s_empty

NewFromEnv(env, prefix) ==
    LET level == Getenv(env, prefix \o s_LOG_LEVEL)
        format == Getenv(env, prefix \o s_LOG_FORMAT)
    IN  New(Config(level, format))

Default == New(Config(s_info, s_console))

\* zerolog's disabledLogger: Nop() = New(nil).Level(Disabled), writing to io.Discard
disabledLogger ==
    [w |-> <<[kind |-> "discard", Out |-> "", TimeFormat |-> ""]>>, level |-> Disabled,
     context |-> <<>>, hooks |-> <<>>]

\* Logger{}: the zero value of the Logger type, which has no writer
zeroLogger == [w |-> <<>>, level |-> DebugLevel, context |-> <<>>, hooks |-> <<>>]

\* Logger.should(lvl), which l.Error() asks: whether an event at lvl is
\* written at all (the global level is left at its default, trace)
should(l, lvl) == l.w # <<>> /\ lvl >= l.level

----------------------------------------------------------------------------
\* Contexts.  A context is an immutable link: its parent (0 for none) and,
\* when it was made by Logger.WithContext, the logger stored under
\* zerolog's key.

HasLogger(cs, c) ==
    LET RECURSIVE has(_)
        has(i) == IF i = 0 THEN FALSE
                  ELSE IF cs[i].bound THEN TRUE
                  ELSE has(cs[i].parent)
    IN  has(c)

\* zerolog.Ctx(ctx): the nearest logger stored in the chain, or the
\* disabled logger when there is none.
zerologCtx(cs, c) ==
    LET RECURSIVE look(_)
        look(i) == IF i = 0 THEN disabledLogger
                   ELSE IF cs[i].bound THEN cs[i].logger
                   ELSE look(cs[i].parent)
    IN  look(c)

\* a bug FromCtx could have: a default logger instead of the no-op one
FromCtx_default(cs, c) ==
    IF HasLogger(cs, c) THEN zerologCtx(cs, c)
    ELSE [w |-> <<[kind |-> "console", Out |-> Stderr, TimeFormat |-> RFC3339]>>,
          level |-> InfoLevel, context |-> <<>>, hooks |-> <<"timestamp">>]

\* FromCtx extracts the logger from context.
FromCtx(cs, c) == zerologCtx(cs, c)

\* a bug WithCtx could have: storing nothing when the context already
\* carries a logger
WithCtx_keepFirst(cs, c, log) ==
    IF HasLogger(cs, c) \/ log.level = Disabled
    THEN [ctxs |-> cs, ctx |-> c]
    ELSE [ctxs |-> Append(cs, [parent |-> c, bound |-> TRUE, logger |-> log]),
          ctx |-> Len(cs) + 1]

\* a bug WithCtx could have: the logger the context already carries is
\* overwritten where it is stored, as zerolog's UpdateContext does
WithCtx_inPlace(cs, c, log) ==
    LET RECURSIVE holder(_)
        holder(i) == IF cs[i].bound THEN i ELSE holder(cs[i].parent)
    IN  IF HasLogger(cs, c)
        THEN [ctxs |-> [cs EXCEPT ![holder(c)].logger = log], ctx |-> c]
        ELSE IF log.level = Disabled
        THEN [ctxs |-> cs, ctx |-> c]
        ELSE [ctxs |-> Append(cs, [parent |-> c, bound |-> TRUE, logger |-> log]),
              ctx |-> Len(cs) + 1]

\* WithCtx attaches the logger to the context and returns the new context:
\* log.WithContext(ctx), which does not store a disabled logger in a
\* context that has none.
WithCtx(cs, c, log) ==
    IF ~HasLogger(cs, c) /\ log.level = Disabled
    THEN [ctxs |-> cs, ctx |-> c]
    ELSE [ctxs |-> Append(cs, [parent |-> c, bound |-> TRUE, logger |-> log]),
          ctx |-> Len(cs) + 1]

----------------------------------------------------------------------------
\* Field coercion

\* addToContext's type switch: the zerolog.Context method for each Go type
Encoder(type) ==
    CASE type = "string" -> "Str"
      [] type = "int" -> "Int"
      [] type = "int8" -> "Int8"
      [] type = "int16" -> "Int16"
      [] type = "int32" -> "Int32"
      [] type = "int64" -> "Int64"
      [] type = "uint" -> "Uint"
      [] type = "uint8" -> "Uint8"
      [] type = "uint16" -> "Uint16"
      [] type = "uint32" -> "Uint32"
      [] type = "uint64" -> "Uint64"
      [] type = "float32" -> "Float32"
      [] type = "float64" -> "Float64"
      [] type = "bool" -> "Bool"
      [] type = "error" -> "AnErr"
      [] type = "time.Time" -> "Time"
      [] type = "time.Duration" -> "Dur"
      [] type = "[]byte" -> "Bytes"
      [] type = "[]string" -> "Strs"
      [] OTHER -> "Interface"

\* a bug addToContext could have: a key the logger already carries is not
\* added again, its value is replaced where it stands
addToContext_dedup(c, key, val) ==
    LET entry == [key |-> key, enc |-> Encoder(val.type), val |-> val.v]
    IN  IF \E i \in DOMAIN c.context : c.context[i].key = key
        THEN [c EXCEPT !.context = [i \in DOMAIN @ |-> IF @[i].key = key THEN entry ELSE @[i]]]
        ELSE [c EXCEPT !.context = Append(@, entry)]

\* addToContext adds a field to the zerolog Context: the field is appended
\* to the fields the logger under construction already carries.
addToContext(c, key, val) ==
    [c EXCEPT !.context = Append(@, [key |-> key, enc |-> Encoder(val.type), val |-> val.v])]

\* WithField returns a new Logger with the field added.
WithField(l, key, value) == addToContext(l, key, value)

\* the orders in which a range over a map of these keys can run
Orders(keys) ==
    {o \in [1..Cardinality(keys) -> keys] : \A i, j \in DOMAIN o : o[i] = o[j] => i = j}

\* c.With() followed by addToContext for each entry of fields, in the order o
AddFields(c, fields, o) ==
    LET RECURSIVE add(_)
        add(n) == IF n = 0 THEN c ELSE addToContext(add(n - 1), o[n], fields[o[n]])
    IN  add(Len(o))

----------------------------------------------------------------------------
\* Errors.  An error is the sequence of the texts of its Unwrap chain, the
\* outermost first; the nil error is the empty sequence.

NilErr == <<>>

ErrorText(err) == Head(err)

Unwrap(err) == Tail(err)

\* a bug the helpers could have: %v in place of %w, which drops the link
Errorf_noWrap(msg, err) == <<msg \o s_sep \o ErrorText(err)>>

\* fmt.Errorf("%s: %w", msg, err)
Errorf(msg, err) == <<msg \o s_sep \o ErrorText(err)>> \o err

s_noverb == <<37, 33, 40, 78, 79, 86, 69, 82, 66, 41>>              \* "%!(NOVERB)"
s_missing_s == <<37, 33, 115, 40, 77, 73, 83, 83, 73, 78, 71, 41>>  \* "%!s(MISSING)"
s_extra == <<37, 33, 40, 69, 88, 84, 82, 65, 32>>                   \* "%!(EXTRA "
s_string_eq == <<115, 116, 114, 105, 110, 103, 61>>                 \* "string="
s_comma_sp == <<44, 32>>                                            \* ", "
s_rparen == <<41>>                                                  \* ")"

\* fmt.Sprintf for string arguments and the verbs %s and %%
Sprintf(format, args) ==
    LET RECURSIVE extra(_)
        extra(n) == IF n > Len(args) THEN s_rparen
                    ELSE s_string_eq \o args[n] \o
                         (IF n < Len(args) THEN s_comma_sp ELSE s_empty) \o extra(n + 1)
        RECURSIVE scan(_, _)
        scan(i, argNum) ==
            IF i > Len(format)
            THEN IF argNum <= Len(args) THEN s_extra \o extra(argNum) ELSE s_empty
            ELSE IF format[i] # 37 THEN <<format[i]>> \o scan(i + 1, argNum)
            ELSE IF i + 1 > Len(format) THEN s_noverb \o scan(i + 1, argNum)
            ELSE IF format[i + 1] = 37 THEN <<37>> \o scan(i + 2, argNum)
            ELSE IF argNum > Len(args) THEN s_missing_s \o scan(i + 2, argNum)
            ELSE args[argNum] \o scan(i + 2, argNum + 1)
    IN  scan(1, 1)

----------------------------------------------------------------------------
\* Emission

\* a bug the helpers could have: logging at warn severity
LogErr_warn(l, err, msg) ==
    IF should(l, WarnLevel)
    THEN <<[w |-> l.w, level |-> WarnLevel, hooks |-> l.hooks, message |-> msg,
            fields |-> Append(l.context, [key |-> s_error, enc |-> "Err", val |-> ErrorText(err)])]>>
    ELSE <<>>

\* l.Error().Err(err).Msg(msg): the events written, none when the logger
\* filters error severity out
LogErr(l, err, msg) ==
    IF should(l, ErrorLevel)
    THEN <<[w |-> l.w, level |-> ErrorLevel, hooks |-> l.hooks, message |-> msg,
            fields |-> Append(l.context, [key |-> s_error, enc |-> "Err", val |-> ErrorText(err)])]>>
    ELSE <<>>

\* a bug the helpers could have: logging before the nil check
WrapErr_logFirst(l, err, msg) ==
    IF err = NilErr
    THEN [ret |-> NilErr, events |-> IF should(l, ErrorLevel)
                                     THEN <<[w |-> l.w, level |-> ErrorLevel, hooks |-> l.hooks,
                                             message |-> msg, fields |-> l.context]>>
                                     ELSE <<>>]
    ELSE [ret |-> Errorf(msg, err), events |-> LogErr(l, err, msg)]

\* WrapErr logs the error and returns a wrapped error with the message.
WrapErr(l, err, msg) ==
    IF err = NilErr
    THEN [ret |-> NilErr, events |-> <<>>]
    ELSE [ret |-> Errorf(msg, err), events |-> LogErr(l, err, msg)]

\* WrapErrWithFields logs with fields and returns a wrapped error; o is the
\* order in which the range over fields ran.
WrapErrWithFields(l, err, msg, fields, o) ==
    IF err = NilErr
    THEN [ret |-> NilErr, events |-> <<>>]
    ELSE [ret |-> Errorf(msg, err), events |-> LogErr(AddFields(l, fields, o), err, msg)]

\* WrapErrf logs the error and returns a wrapped error with a formatted message.
WrapErrf(l, err, format, args) ==
    IF err = NilErr
    THEN [ret |-> NilErr, events |-> <<>>]
    ELSE LET msg == Sprintf(format, args)
         IN  [ret |-> Errorf(msg, err), events |-> LogErr(l, err, msg)]

----------------------------------------------------------------------------
\* Struct field extraction

s_dash == <<45>>                                                  \* "-"
s_uid == <<117, 105, 100>>                                        \* "uid"
s_j == <<106>>                                                    \* "j"
s_j_omit == <<106, 44, 111, 109, 105, 116, 101, 109, 112, 116, 121>>  \* "j,omitempty"
s_omit == <<44, 111, 109, 105, 116, 101, 109, 112, 116, 121>>     \* ",omitempty"
s_UserID == <<85, 115, 101, 114, 73, 68>>                         \* "UserID"
s_RequestID == <<82, 101, 113, 117, 101, 115, 116, 73, 68>>       \* "RequestID"
s_IP == <<73, 80>>                                                \* "IP"
s_user_i_d == <<117, 115, 101, 114, 95, 105, 95, 100>>            \* "user_i_d"
s_request_i_d == <<114, 101, 113, 117, 101, 115, 116, 95, 105, 95, 100>>  \* "request_i_d"
s_i_p == <<105, 95, 112>>                                         \* "i_p"

\* a bug toSnakeCase could have: a separator before an initial capital too
toSnakeCase_leading(s) ==
    LET RECURSIVE conv(_)
        conv(i) ==
            IF i > Len(s) THEN <<>>
            ELSE (IF s[i] >= 65 /\ s[i] <= 90 THEN <<95>> ELSE <<>>)
                 \o (IF s[i] >= 65 /\ s[i] <= 90 THEN <<s[i] + 32>> ELSE <<s[i]>>)
                 \o conv(i + 1)
    IN  conv(1)

\* toSnakeCase converts PascalCase/camelCase to snake_case.
toSnakeCase(s) ==
    LET RECURSIVE conv(_)
        conv(i) ==
            IF i > Len(s) THEN <<>>
            ELSE (IF i > 1 /\ s[i] >= 65 /\ s[i] <= 90 THEN <<95>> ELSE <<>>)
                 \o (IF s[i] >= 65 /\ s[i] <= 90 THEN <<s[i] + 32>> ELSE <<s[i]>>)
                 \o conv(i + 1)
    IN  conv(1)

\* strings.Split(s, sep) for a one-rune separator
Split(s, sep) ==
    LET RECURSIVE parts(_, _)
        parts(i, cur) ==
            IF i > Len(s) THEN <<cur>>
            ELSE IF s[i] = sep THEN <<cur>> \o parts(i + 1, <<>>)
            ELSE parts(i + 1, Append(cur, s[i]))
    IN  parts(1, <<>>)

\* reflect.StructField.IsExported: the declared name starts with an
\* uppercase letter
IsExported(field) ==
    /\ Len(field.Name) > 0
    /\ \/ field.Name[1] >= 65 /\ field.Name[1] <= 90
       \/ field.Name[1] = 201

\* a bug the name resolution could have: the json tag read before the log tag
ResolveName_jsonFirst(field) ==
    LET jsonTag == field.json
        name1 == IF jsonTag # s_empty THEN Split(jsonTag, 44)[1] ELSE s_empty
        name2 == IF name1 = s_empty THEN field.log ELSE name1
    IN  IF name2 = s_empty THEN toSnakeCase(field.Name) ELSE name2

\* "Determine field name from tags": the log tag, else the json tag up to
\* its first comma, else the snake-cased declared name
ResolveName(field) ==
    LET name0 == field.log
        jsonTag == field.json
        name1 == IF name0 = s_empty
                 THEN (IF jsonTag # s_empty THEN Split(jsonTag, 44)[1] ELSE name0)
                 ELSE name0
    IN  IF name1 = s_empty THEN toSnakeCase(field.Name) ELSE name1

\* a bug the extraction could have: the sentinel is not recognised
IsSkipTag_never(name) == FALSE

\* "Skip fields tagged with -"
IsSkipTag(name) == name = s_dash

EmptyFields == [k \in {} |-> 0]

\* fields[name] = value
Put(fields, name, value) ==
    [k \in (DOMAIN fields) \cup {name} |-> IF k = name THEN value ELSE fields[k]]

\* the loop of extractFields over the members of the struct value v
StructFields(v) ==
    LET RECURSIVE loop(_)
        loop(n) ==
            IF n = 0 THEN EmptyFields
            ELSE LET field == v.members[n]
                     name == ResolveName(field)
                     fields == loop(n - 1)
                 IN  IF ~IsExported(field) THEN fields
                     ELSE IF IsSkipTag(name) THEN fields
                     ELSE IF (field.kind = "ptr" \/ field.kind = "interface") /\ field.isNil
                          THEN fields
                     ELSE Put(fields, name, field.val)
    IN  loop(Len(v.members))

\* a bug extractFields could have: no check that the value is a struct, so
\* that v.Type() and t.NumField() panic on anything else
extractFields_noKindCheck(s) ==
    LET v == IF s.kind = "ptr" /\ ~s.isNil THEN s.elem[1] ELSE s
    IN  IF s.kind = "ptr" /\ s.isNil THEN [panicked |-> FALSE, fields |-> EmptyFields]
        ELSE IF v.kind # "struct" THEN [panicked |-> TRUE, fields |-> EmptyFields]
        ELSE [panicked |-> FALSE, fields |-> StructFields(v)]

\* extractFields extracts loggable fields from a struct using reflection.
extractFields(s) ==
    LET v == IF s.kind = "ptr" /\ ~s.isNil THEN s.elem[1] ELSE s
    IN  IF s.kind = "ptr" /\ s.isNil THEN [panicked |-> FALSE, fields |-> EmptyFields]
        ELSE IF v.kind # "struct" THEN [panicked |-> FALSE, fields |-> EmptyFields]
        ELSE [panicked |-> FALSE, fields |-> StructFields(v)]

----------------------------------------------------------------------------
\* The inputs the calls are made with

s_FATAL == <<70, 65, 84, 65, 76>>                     \* "FATAL"
s_JSON == <<74, 83, 79, 78>>                          \* "JSON"
s_fmt_get == <<103, 101, 116, 32, 37, 115>>           \* "get %s"
s_fmt_pct == <<37, 115, 37, 37>>                      \* "%s%%"

Configs ==
    {[Level |-> s_empty, Format |-> s_empty, TimeFormat |-> "", Output |-> "nil", Caller |-> FALSE],
     [Level |-> s_debug, Format |-> s_JSON, TimeFormat |-> "", Output |-> "nil", Caller |-> FALSE],
     [Level |-> s_FATAL, Format |-> s_json, TimeFormat |-> "", Output |-> "nil", Caller |-> TRUE],
     [Level |-> s_disabled, Format |-> s_empty, TimeFormat |-> "", Output |-> "nil", Caller |-> FALSE]}

Keys == {s_k}

\* a value of type any: its Go type and, as v, the text it is encoded to
Values == {[type |-> "string", v |-> s_x], [type |-> "int", v |-> <<49, 50, 51>>]}

\* the maps of fields passed to the helpers
FieldMaps == UNION {[ks -> Values] : ks \in {{}, {s_k}, {s_k, s_id}}}

Errs == {NilErr, <<s_eof>>}

Msgs == {s_open}

Formats == {s_fmt_get, s_fmt_pct}

ArgLists == {<<>>, <<s_x>>}

WrapOps == {"WrapErr", "WrapErrWithFields", "WrapErrf"}

----------------------------------------------------------------------------
\* The calls of a program that uses the package

Background == [parent |-> 0, bound |-> FALSE, logger |-> disabledLogger]

Init ==
    /\ ctxs = <<Background, [parent |-> 1, bound |-> FALSE, logger |-> disabledLogger]>>
    /\ logs = {}
    /\ written = <<>>
    /\ last = [op |-> "none"]
    /\ call = [fn |-> "none"]
    /\ result = [done |-> FALSE]

Holds(l) == Cardinality(logs \cup {l}) <= MaxLogs

DoNew(cfg) ==
    LET l == New(cfg) IN
    /\ Holds(l)
    /\ logs' = logs \cup {l}
    /\ last' = [op |-> "New", ret |-> l]
    /\ UNCHANGED <<ctxs, written, call, result>>

DoFromCtx(c) ==
    LET l == FromCtx(ctxs, c) IN
    /\ Holds(l)
    /\ logs' = logs \cup {l}
    /\ last' = [op |-> "FromCtx", ctx |-> c, ret |-> l]
    /\ UNCHANGED <<ctxs, written, call, result>>

DoWithCtx(c, l) ==
    LET r == WithCtx(ctxs, c, l) IN
    /\ Len(ctxs) < MaxCtxs
    /\ ctxs' = r.ctxs
    /\ last' = [op |-> "WithCtx", ctx |-> c, log |-> l, ret |-> r.ctx]
    /\ UNCHANGED <<logs, written, call, result>>

DoWithField(l, key, value) ==
    LET r == WithField(l, key, value) IN
    /\ Len(l.context) < MaxFields
    /\ Holds(r)
    /\ logs' = logs \cup {r}
    /\ last' = [op |-> "WithField", log |-> l, ret |-> r]
    /\ UNCHANGED <<ctxs, written, call, result>>

DoWrapErr(l, err, msg) ==
    LET r == WrapErr(l, err, msg) IN
    /\ Len(written) < MaxWritten
    /\ written' = written \o r.events
    /\ last' = [op |-> "WrapErr", log |-> l, err |-> err, msg |-> msg, ret |-> r.ret,
                events |-> r.events]
    /\ UNCHANGED <<ctxs, logs, call, result>>

DoWrapErrWithFields(l, err, msg, fields) ==
    \E o \in Orders(DOMAIN fields) :
        LET r == WrapErrWithFields(l, err, msg, fields, o) IN
        /\ Len(written) < MaxWritten
        /\ written' = written \o r.events
        /\ last' = [op |-> "WrapErrWithFields", log |-> l, err |-> err, msg |-> msg,
                    fields |-> fields, ret |-> r.ret, events |-> r.events]
        /\ UNCHANGED <<ctxs, logs, call, result>>

DoWrapErrf(l, err, format, args) ==
    LET r == WrapErrf(l, err, format, args) IN
    /\ Len(written) < MaxWritten
    /\ written' = written \o r.events
    /\ last' = [op |-> "WrapErrf", log |-> l, err |-> err, format |-> format,
                args |-> args, ret |-> r.ret, events |-> r.events]
    /\ UNCHANGED <<ctxs, logs, call, result>>

\* contexts and logger handles
Next ==
    \/ \E cfg \in Configs : DoNew(cfg)
    \/ \E c \in DOMAIN ctxs : DoFromCtx(c)
    \/ \E c \in DOMAIN ctxs, l \in logs : DoWithCtx(c, l)
    \/ \E l \in logs, key \in Keys, value \in Values : DoWithField(l, key, value)

Spec == Init /\ [][Next]_vars

\* The error-wrap helpers, called on one logger handle: the logger FromCtx
\* returns for a context without one, a logger New made, or one of these
\* enriched with a field.
WrapLoggers ==
    LET made == {FromCtx(<<Background>>, 1), zeroLogger} \cup {New(cfg) : cfg \in Configs}
    IN  made \cup {WithField(l, s_k, value) : l \in made, value \in Values}

InitWrap ==
    /\ ctxs = <<Background>>
    /\ \E l \in WrapLoggers : logs = {l}
    /\ written = <<>>
    /\ last = [op |-> "none"]
    /\ call = [fn |-> "none"]
    /\ result = [done |-> FALSE]

NextWrap ==
    \/ \E l \in logs, err \in Errs, msg \in Msgs : DoWrapErr(l, err, msg)
    \/ \E l \in logs, err \in Errs, msg \in Msgs, fields \in FieldMaps :
           DoWrapErrWithFields(l, err, msg, fields)
    \/ \E l \in logs, err \in Errs, format \in Formats, args \in ArgLists :
           DoWrapErrf(l, err, format, args)

SpecWrap == InitWrap /\ [][NextWrap]_vars

----------------------------------------------------------------------------
\* The pure functions, each applied to an input drawn from a bounded set

MaxMembers == 2     \* members of a struct passed to extractFields
MaxNameLen == 3     \* runes of a name passed to toSnakeCase

s_verbose == <<118, 101, 114, 98, 111, 115, 101>>     \* "verbose"
s_warnx == <<119, 97, 114, 110, 120>>                 \* "warnx"
s_inf == <<105, 110, 102>>                            \* "inf"
s_off == <<111, 102, 102>>                            \* "off"
s_dEbug == <<100, 201, 98, 117, 103>>                 \* "debug" with a capital E acute for its e

\* the sequences over S of length at most n
SeqsUpTo(S, n) == UNION {[1..k -> S] : k \in 0..n}

\* the members a struct type can declare: name, log tag, json tag (the empty
\* string when the tag is absent, as Tag.Get returns it), kind and value
Members ==
    {[Name |-> name, log |-> log, json |-> json, kind |-> val.kind, isNil |-> val.isNil,
      val |-> val.val] :
        name \in {s_UserID, s_id},
        log \in {s_empty, s_dash, s_uid},
        json \in {s_empty, s_dash, s_omit, s_j_omit},
        val \in {[kind |-> "int", isNil |-> FALSE, val |-> [type |-> "int", v |-> 1]],
                 [kind |-> "int", isNil |-> FALSE, val |-> [type |-> "int", v |-> 2]],
                 [kind |-> "ptr", isNil |-> TRUE, val |-> [type |-> "*int", v |-> 0]]}}

StructOf(members) == [kind |-> "struct", isNil |-> FALSE, elem |-> <<>>, members |-> members]

PtrTo(v) == [kind |-> "ptr", isNil |-> FALSE, elem |-> <<v>>, members |-> <<>>]

NilPtr == [kind |-> "ptr", isNil |-> TRUE, elem |-> <<>>, members |-> <<>>]

\* nil (the invalid reflect.Value), scalars, a map, a slice
NonStructs ==
    {[kind |-> k, isNil |-> FALSE, elem |-> <<>>, members |-> <<>>] :
        k \in {"invalid", "int", "string", "map", "slice"}}

ExtractInputs ==
    {StructOf(ms) : ms \in SeqsUpTo(Members, MaxMembers)}
    \cup {PtrTo(StructOf(ms)) : ms \in SeqsUpTo(Members, 1)}
    \cup {PtrTo(PtrTo(StructOf(ms))) : ms \in SeqsUpTo(Members, 1)}
    \cup NonStructs \cup {PtrTo(v) : v \in NonStructs} \cup {NilPtr, PtrTo(NilPtr)}

\* 'A', 'Z', 'a', '1', '_' and the capital E acute
NameRunes == {65, 90, 97, 49, 95, 201}

SnakeInputs == SeqsUpTo(NameRunes, MaxNameLen) \cup {s_UserID, s_RequestID, s_IP}

\* the spellings of a lowercase ASCII word in every mix of letter cases
CaseVariants(word) ==
    LET RECURSIVE spell(_)
        spell(n) == IF n = 0 THEN {<<>>}
                    ELSE {Append(p, r) : p \in spell(n - 1), r \in {word[n], word[n] - 32}}
    IN  spell(Len(word))

LevelNames == {s_trace, s_debug, s_info, s_warn, s_warning, s_error, s_fatal, s_panic,
               s_disabled}

LevelInputs ==
    UNION {CaseVariants(w) : w \in LevelNames \cup {s_verbose, s_warnx, s_inf, s_off}}
    \cup {s_empty, s_dEbug}

----------------------------------------------------------------------------
\* Telemetry bridge: the severities of go.opentelemetry.io/otel/log, as the
\* code names them.  The SDK has twenty-four tiers, four to a name:
\* TRACE..TRACE4 are 1..4, DEBUG 5..8, INFO 9..12, WARN 13..16, ERROR 17..20,
\* FATAL 21..24; SeverityFatal is the first fatal tier and SeverityFatal4 the
\* last.

SeverityTrace == 1
SeverityDebug == 5
SeverityInfo == 9
SeverityWarn == 13
SeverityError == 17
SeverityFatal == 21
SeverityFatal4 == 24

\* log.Severity: the tiers a record can carry
Severities == 1..24

\* the switch without its warn case
levelToOTel_noWarn(level) ==
    CASE level = TraceLevel -> SeverityTrace
      [] level = DebugLevel -> SeverityDebug
      [] level = InfoLevel -> SeverityInfo
      [] level = ErrorLevel -> SeverityError
      [] level = FatalLevel -> SeverityFatal
      [] level = PanicLevel -> SeverityFatal4
      [] OTHER -> SeverityInfo

\* panic sent to the tier of fatal
levelToOTel_panicAsFatal(level) ==
    CASE level = TraceLevel -> SeverityTrace
      [] level = DebugLevel -> SeverityDebug
      [] level = InfoLevel -> SeverityInfo
      [] level = WarnLevel -> SeverityWarn
      [] level = ErrorLevel -> SeverityError
      [] level = FatalLevel -> SeverityFatal
      [] level = PanicLevel -> SeverityFatal
      [] OTHER -> SeverityInfo

levelToOTel(level) ==
    CASE level = TraceLevel -> SeverityTrace
      [] level = DebugLevel -> SeverityDebug
      [] level = InfoLevel -> SeverityInfo
      [] level = WarnLevel -> SeverityWarn
      [] level = ErrorLevel -> SeverityError
      [] level = FatalLevel -> SeverityFatal
      [] level = PanicLevel -> SeverityFatal4
      [] OTHER -> SeverityInfo

\* strconv.Itoa
Itoa(n) ==
    LET RECURSIVE digits(_)
        digits(m) == IF m < 10 THEN <<48 + m>> ELSE Append(digits(m \div 10), 48 + (m % 10))
    IN  IF n < 0 THEN <<45>> \o digits(-n) ELSE digits(n)

\* zerolog's Level.String(): the name of the level, empty for NoLevel (6),
\* the number in decimal for a value no level has
LevelString(level) ==
    CASE level = TraceLevel -> s_trace
      [] level = DebugLevel -> s_debug
      [] level = InfoLevel -> s_info
      [] level = WarnLevel -> s_warn
      [] level = ErrorLevel -> s_error
      [] level = FatalLevel -> s_fatal
      [] level = PanicLevel -> s_panic
      [] level = Disabled -> s_disabled
      [] level = 6 -> s_empty
      [] OTHER -> Itoa(level)

\* Run with the context of the event passed on as it is
Run_nilCtx(h, e, level, msg) ==
    IF h.logger = "nil"
    THEN <<>>
    ELSE <<[logger |-> h.logger, ctx |-> e.ctx, body |-> msg,
            severity |-> levelToOTel(level), text |-> LevelString(level)]>>

\* Hook.Run: the records it hands to h.logger.Emit, each with the context
\* it is emitted with.  h.logger is "nil" or the name of the telemetry logger;
\* e.ctx is what e.GetCtx() returns, "nil" for a nil context.
Run(h, e, level, msg) ==
    IF h.logger = "nil"
    THEN <<>>
    ELSE LET ctx == IF e.ctx = "nil" THEN "background" ELSE e.ctx
         IN  <<[logger |-> h.logger, ctx |-> ctx, body |-> msg,
                severity |-> levelToOTel(level), text |-> LevelString(level)]>>

\* zerolog.Level is an int8: the seven levels of the switch, NoLevel (6),
\* Disabled (7) and values no level has, with both ends of the type
OTelLevels == (-3..9) \cup {-128, 127}

s_xml == <<120, 109, 108>>                            \* "xml"
s_MYAPP == <<77, 89, 65, 80, 80>>                     \* "MYAPP"

\* the configurations passed to New: every mix of the five fields, the
\* levels with the unknown word "loud", the formats with "Console" and "xml"
NewConfigs ==
    [Level : {s_empty, s_info, s_debug, <<108, 111, 117, 100>>},
     Format : {s_empty, s_console, <<67, 111, 110, 115, 111, 108, 101>>, s_json, s_JSON, s_xml},
     TimeFormat : {"", "15:04:05"},
     Output : {"nil", "stdout"},
     Caller : BOOLEAN]

\* the process environments: each of MYAPP_LOG_LEVEL and MYAPP_LOG_FORMAT is
\* unset, set to the empty string or set to a word
Envs ==
    UNION {[ns -> {s_empty, s_debug, s_json}] :
               ns \in SUBSET {s_MYAPP \o s_LOG_LEVEL, s_MYAPP \o s_LOG_FORMAT}}

InitFn ==
    /\ ctxs = <<Background>>
    /\ logs = {}
    /\ written = <<>>
    /\ last = [op |-> "none"]
    /\ result = [done |-> FALSE]
    /\ \/ \E s \in ExtractInputs : call = [fn |-> "extractFields", arg |-> s]
       \/ \E s \in SnakeInputs : call = [fn |-> "toSnakeCase", arg |-> s]
       \/ \E s \in LevelInputs : call = [fn |-> "parseLevel", arg |-> s]
       \/ \E cfg \in NewConfigs : call = [fn |-> "New", arg |-> cfg]
       \/ \E env \in Envs, prefix \in {s_MYAPP, s_empty} :
              call = [fn |-> "NewFromEnv", arg |-> [env |-> env, prefix |-> prefix]]
       \/ call = [fn |-> "Default", arg |-> <<>>]
       \/ \E level \in OTelLevels : call = [fn |-> "levelToOTel", arg |-> level]

RunExtractFields ==
    /\ call.fn = "extractFields" /\ ~result.done
    /\ result' = [done |-> TRUE, val |-> extractFields(call.arg)]
    /\ UNCHANGED <<ctxs, logs, written, last, call>>

RunToSnakeCase ==
    /\ call.fn = "toSnakeCase" /\ ~result.done
    /\ result' = [done |-> TRUE, val |-> toSnakeCase(call.arg)]
    /\ UNCHANGED <<ctxs, logs, written, last, call>>

RunParseLevel ==
    /\ call.fn = "parseLevel" /\ ~result.done
    /\ result' = [done |-> TRUE, val |-> parseLevel(call.arg)]
    /\ UNCHANGED <<ctxs, logs, written, last, call>>

RunNew ==
    /\ call.fn = "New" /\ ~result.done
    /\ result' = [done |-> TRUE, val |-> New(call.arg)]
    /\ UNCHANGED <<ctxs, logs, written, last, call>>

RunNewFromEnv ==
    /\ call.fn = "NewFromEnv" /\ ~result.done
    /\ result' = [done |-> TRUE, val |-> NewFromEnv(call.arg.env, call.arg.prefix)]
    /\ UNCHANGED <<ctxs, logs, written, last, call>>

RunDefault ==
    /\ call.fn = "Default" /\ ~result.done
    /\ result' = [done |-> TRUE, val |-> Default]
    /\ UNCHANGED <<ctxs, logs, written, last, call>>

RunLevelToOTel ==
    /\ call.fn = "levelToOTel" /\ ~result.done
    /\ result' = [done |-> TRUE, val |-> levelToOTel(call.arg)]
    /\ UNCHANGED <<ctxs, logs, written, last, call>>

NextFn ==
    \/ RunExtractFields
    \/ RunToSnakeCase
    \/ RunParseLevel
    \/ RunNew
    \/ RunNewFromEnv
    \/ RunDefault
    \/ RunLevelToOTel

SpecFn == InitFn /\ [][NextFn]_vars

----------------------------------------------------------------------------
\* File logging: NewWithFile, the events its logger writes and the cleanup
\* function it returns.  Here call holds the arguments of NewWithFile, result
\* what it returned (with the state of the file writer), written the writes
\* that reached the sinks.

MaxCleanups == 2

\* the age default copied from the backups default
lumberjackLogger_ageAsBackups(fileCfg) ==
    LET maxSize == IF fileCfg.MaxSize = 0 THEN 100 ELSE fileCfg.MaxSize
        maxBackups == IF fileCfg.MaxBackups = 0 THEN 3 ELSE fileCfg.MaxBackups
        maxAge == IF fileCfg.MaxAge = 0 THEN maxBackups ELSE fileCfg.MaxAge
    IN  [Filename |-> fileCfg.Path, MaxSize |-> maxSize, MaxBackups |-> maxBackups,
         MaxAge |-> maxAge, Compress |-> fileCfg.Compress, open |-> FALSE]

\* &lumberjack.Logger{...} with the defaults for the zero fields; the file
\* itself is opened by the first write
lumberjackLogger(fileCfg) ==
    LET maxSize == IF fileCfg.MaxSize = 0 THEN 100 ELSE fileCfg.MaxSize
        maxBackups == IF fileCfg.MaxBackups = 0 THEN 3 ELSE fileCfg.MaxBackups
        maxAge == IF fileCfg.MaxAge = 0 THEN 28 ELSE fileCfg.MaxAge
    IN  [Filename |-> fileCfg.Path, MaxSize |-> maxSize, MaxBackups |-> maxBackups,
         MaxAge |-> maxAge, Compress |-> fileCfg.Compress, open |-> FALSE]

\* NewWithFile testing the path only
NewWithFile_ignoreEnabled(cfg, fileCfg) ==
    IF fileCfg.Path = ""
    THEN [logger |-> New(cfg), cleanup |-> "noop", err |-> "nil", file |-> <<>>]
    ELSE LET consoleOutput == IF cfg.Output = "nil" THEN Stderr ELSE cfg.Output
             timeFormat == IF cfg.TimeFormat = "" THEN RFC3339 ELSE cfg.TimeFormat
             format == ToLower(cfg.Format)
             console == IF format = s_console \/ format = s_empty
                        THEN [kind |-> "console", Out |-> consoleOutput, TimeFormat |-> timeFormat]
                        ELSE [kind |-> "raw", Out |-> consoleOutput, TimeFormat |-> ""]
             fileWriter == [kind |-> "file", Out |-> fileCfg.Path, TimeFormat |-> ""]
         IN  [logger |-> [w |-> <<console, fileWriter>>, level |-> parseLevel(cfg.Level),
                          context |-> <<>>,
                          hooks |-> IF cfg.Caller THEN <<"timestamp", "caller">>
                                    ELSE <<"timestamp">>],
              cleanup |-> "close", err |-> "nil", file |-> <<lumberjackLogger(fileCfg)>>]

\* What NewWithFile returns: the logger, the cleanup function ("noop" for
\* func() {}, "close" for the closure over fileWriter) and the error; file is
\* the lumberjack.Logger the closure and the multi-writer share, none when no
\* file writer was made.
NewWithFile(cfg, fileCfg) ==
    IF ~fileCfg.Enabled \/ fileCfg.Path = ""
    THEN [logger |-> New(cfg), cleanup |-> "noop", err |-> "nil", file |-> <<>>]
    ELSE LET consoleOutput == IF cfg.Output = "nil" THEN Stderr ELSE cfg.Output
             timeFormat == IF cfg.TimeFormat = "" THEN RFC3339 ELSE cfg.TimeFormat
             format == ToLower(cfg.Format)
             console == IF format = s_console \/ format = s_empty
                        THEN [kind |-> "console", Out |-> consoleOutput, TimeFormat |-> timeFormat]
                        ELSE [kind |-> "raw", Out |-> consoleOutput, TimeFormat |-> ""]
             fileWriter == [kind |-> "file", Out |-> fileCfg.Path, TimeFormat |-> ""]
         IN  [logger |-> [w |-> <<console, fileWriter>>, level |-> parseLevel(cfg.Level),
                          context |-> <<>>,
                          hooks |-> IF cfg.Caller THEN <<"timestamp", "caller">>
                                    ELSE <<"timestamp">>],
              cleanup |-> "close", err |-> "nil", file |-> <<lumberjackLogger(fileCfg)>>]

\* cleanup(): fileWriter.Close() for the closure, nothing for func() {}
cleanup(val) ==
    IF val.cleanup = "close" THEN [val EXCEPT !.file[1].open = FALSE] ELSE val

\* the event formatted once, by the first writer, before it is fanned out
WriteLevel_formatFirst(e) ==
    [i \in 1..Len(e.w) |->
        [to |-> e.w[i], text |-> IF e.w[1].kind = "console" THEN "console" ELSE "json",
         level |-> e.level, message |-> e.message]]

\* zerolog.MultiLevelWriter(writers...).WriteLevel: the JSON event goes to
\* every writer in turn; a ConsoleWriter turns it into console text for its
\* Out, any other writer receives the JSON line
WriteLevel(e) ==
    [i \in 1..Len(e.w) |->
        [to |-> e.w[i], text |-> IF e.w[i].kind = "console" THEN "console" ELSE "json",
         level |-> e.level, message |-> e.message]]

\* the file configurations: every mix of the six fields
FileConfigs ==
    [Enabled : BOOLEAN, Path : {"", "app.log"}, MaxSize : {0, 50}, MaxBackups : {0, 5},
     MaxAge : {0, -1}, Compress : BOOLEAN]

InitFile ==
    /\ ctxs = <<Background>>
    /\ logs = {}
    /\ written = <<>>
    /\ last = [op |-> "none"]
    /\ result = [done |-> FALSE]
    /\ \E cfg \in NewConfigs, fileCfg \in FileConfigs :
           /\ cfg.TimeFormat = "" /\ cfg.Output = "nil" /\ ~cfg.Caller
           /\ cfg.Level \in {s_empty, s_debug}
           /\ call = [fn |-> "NewWithFile", arg |-> [cfg |-> cfg, fileCfg |-> fileCfg]]

RunNewWithFile ==
    /\ call.fn = "NewWithFile" /\ ~result.done
    /\ result' = [done |-> TRUE, val |-> NewWithFile(call.arg.cfg, call.arg.fileCfg)]
    /\ UNCHANGED <<ctxs, logs, written, last, call>>

\* log.WithLevel(lvl).Msg(msg) on the logger NewWithFile returned
DoLog(lvl, msg) ==
    /\ call.fn = "NewWithFile" /\ result.done
    /\ Len(written) < 2 * MaxWritten
    /\ LET l == result.val.logger
           e == [w |-> l.w, level |-> lvl, hooks |-> l.hooks, message |-> msg,
                 fields |-> l.context]
           writes == IF should(l, lvl) THEN WriteLevel(e) ELSE <<>>
       IN  /\ written' = written \o writes
           /\ result' = IF writes # <<>> /\ result.val.file # <<>>
                         THEN [result EXCEPT !.val.file[1].open = TRUE]
                         ELSE result
           /\ last' = [op |-> "Log", level |-> lvl, n |-> Len(writes)]
    /\ UNCHANGED <<ctxs, logs, call>>

\* one more call of the cleanup function NewWithFile returned
DoCleanup ==
    /\ call.fn = "NewWithFile" /\ result.done
    /\ LET n == IF last.op = "cleanup" THEN last.n + 1 ELSE 1
       IN  /\ n <= MaxCleanups
           /\ last' = [op |-> "cleanup", n |-> n]
    /\ result' = [result EXCEPT !.val = cleanup(@)]
    /\ UNCHANGED <<ctxs, logs, written, call>>

NextFile ==
    \/ RunNewWithFile
    \/ \E lvl \in {DebugLevel, ErrorLevel}, msg \in Msgs : DoLog(lvl, msg)
    \/ DoCleanup

SpecFile == InitFile /\ [][NextFile]_vars

----------------------------------------------------------------------------
\* Field enrichment.  The map and struct helpers take, as o, the order in
\* which the range over the map runs.

\* WithFields returns a new Logger with the fields added.
WithFields(l, fields, o) == AddFields(l, fields, o)

\* WithStruct returns a new Logger with fields extracted from struct tags.
WithStruct(l, s, o) == WithFields(l, extractFields(s).fields, o)

\* the field put on a fresh zerolog context instead of FromCtx(ctx).With()
FromCtxWithField_fresh(cs, c, key, value) ==
    addToContext([FromCtx(cs, c) EXCEPT !.context = <<>>], key, value)

\* FromCtxWithField returns a logger with one additional field.
FromCtxWithField(cs, c, key, value) == addToContext(FromCtx(cs, c), key, value)

\* FromCtxWithFields returns a logger with multiple additional fields.
FromCtxWithFields(cs, c, fields, o) == AddFields(FromCtx(cs, c), fields, o)

\* FromCtxWithStruct returns a logger with fields extracted from struct tags.
FromCtxWithStruct(cs, c, s, o) == FromCtxWithFields(cs, c, extractFields(s).fields, o)

\* CtxWithField returns a new context with an enriched logger containing the field.
CtxWithField(cs, c, key, value) == WithCtx(cs, c, FromCtxWithField(cs, c, key, value))

\* CtxWithFields returns a new context with an enriched logger containing the fields.
CtxWithFields(cs, c, fields, o) == WithCtx(cs, c, FromCtxWithFields(cs, c, fields, o))

\* CtxWithStruct returns a new context with an enriched logger containing
\* fields from struct.
CtxWithStruct(cs, c, s, o) == WithCtx(cs, c, FromCtxWithStruct(cs, c, s, o))

\* the structs passed to the struct helpers: a pointer to a struct with a
\* member tagged log:"uid" and a member tagged log:"-", and a nil pointer
EnrichStructs ==
    LET user == StructOf(<<[Name |-> s_UserID, log |-> s_uid, json |-> s_empty, kind |-> "string",
                            isNil |-> FALSE, val |-> [type |-> "string", v |-> s_x]],
                           [Name |-> s_IP, log |-> s_dash, json |-> s_empty, kind |-> "string",
                            isNil |-> FALSE, val |-> [type |-> "string", v |-> s_x]]>>)
    IN  {PtrTo(user), NilPtr}

\* The program holds one base logger, made by New and in half of the cases
\* enriched with a field, and starts with two contexts: the background
\* context and the one WithCtx returned for the base logger.
InitEnrich ==
    /\ \E cfg \in Configs :
       \E l \in {New(cfg), WithField(New(cfg), s_id, [type |-> "string", v |-> s_x])} :
           /\ cfg.Level \in {s_empty, s_disabled}
           /\ logs = {l}
           /\ ctxs = WithCtx(<<Background>>, 1, l).ctxs
    /\ written = <<>>
    /\ last = [op |-> "none"]
    /\ call = [fn |-> "none"]
    /\ result = [done |-> FALSE]

CallWithField(l, key, value) ==
    /\ last' = [op |-> "WithField", log |-> l, fields |-> Put(EmptyFields, key, value),
                ret |-> WithField(l, key, value)]
    /\ UNCHANGED <<ctxs, logs, written, call, result>>

CallWithFields(l, fields) ==
    /\ \E o \in Orders(DOMAIN fields) :
           last' = [op |-> "WithFields", log |-> l, fields |-> fields,
                    ret |-> WithFields(l, fields, o)]
    /\ UNCHANGED <<ctxs, logs, written, call, result>>

CallWithStruct(l, s) ==
    /\ \E o \in Orders(DOMAIN extractFields(s).fields) :
           last' = [op |-> "WithStruct", log |-> l, fields |-> extractFields(s).fields,
                    ret |-> WithStruct(l, s, o)]
    /\ UNCHANGED <<ctxs, logs, written, call, result>>

CallFromCtxWithField(c, key, value) ==
    /\ last' = [op |-> "FromCtxWithField", ctx |-> c, fields |-> Put(EmptyFields, key, value),
                ret |-> FromCtxWithField(ctxs, c, key, value)]
    /\ UNCHANGED <<ctxs, logs, written, call, result>>

CallFromCtxWithFields(c, fields) ==
    /\ \E o \in Orders(DOMAIN fields) :
           last' = [op |-> "FromCtxWithFields", ctx |-> c, fields |-> fields,
                    ret |-> FromCtxWithFields(ctxs, c, fields, o)]
    /\ UNCHANGED <<ctxs, logs, written, call, result>>

CallFromCtxWithStruct(c, s) ==
    /\ \E o \in Orders(DOMAIN extractFields(s).fields) :
           last' = [op |-> "FromCtxWithStruct", ctx |-> c, fields |-> extractFields(s).fields,
                    ret |-> FromCtxWithStruct(ctxs, c, s, o)]
    /\ UNCHANGED <<ctxs, logs, written, call, result>>

CallCtxWithField(c, key, value) ==
    LET r == CtxWithField(ctxs, c, key, value) IN
    /\ Len(ctxs) < MaxCtxs
    /\ ctxs' = r.ctxs
    /\ last' = [op |-> "CtxWithField", ctx |-> c, fields |-> Put(EmptyFields, key, value),
                ret |-> r.ctx]
    /\ UNCHANGED <<logs, written, call, result>>

CallCtxWithFields(c, fields) ==
    /\ Len(ctxs) < MaxCtxs
    /\ \E o \in Orders(DOMAIN fields) :
           LET r == CtxWithFields(ctxs, c, fields, o) IN
           /\ ctxs' = r.ctxs
           /\ last' = [op |-> "CtxWithFields", ctx |-> c, fields |-> fields, ret |-> r.ctx]
    /\ UNCHANGED <<logs, written, call, result>>

CallCtxWithStruct(c, s) ==
    /\ Len(ctxs) < MaxCtxs
    /\ \E o \in Orders(DOMAIN extractFields(s).fields) :
           LET r == CtxWithStruct(ctxs, c, s, o) IN
           /\ ctxs' = r.ctxs
           /\ last' = [op |-> "CtxWithStruct", ctx |-> c, fields |-> extractFields(s).fields,
                       ret |-> r.ctx]
    /\ UNCHANGED <<logs, written, call, result>>

\* Every helper called on the base logger or on a context the program
\* started with; the maps passed are the maps of two keys with values of two
\* types.
NextEnrich ==
    LET InputCtxs == {1, 2} \cap DOMAIN ctxs
        EnrichMaps == {f \in FieldMaps : DOMAIN f = {s_k, s_id} /\ f[s_k].type # f[s_id].type}
    IN  \/ \E l \in logs, key \in Keys, value \in Values : CallWithField(l, key, value)
        \/ \E l \in logs, fields \in EnrichMaps : CallWithFields(l, fields)
        \/ \E l \in logs, s \in EnrichStructs : CallWithStruct(l, s)
        \/ \E c \in InputCtxs, key \in Keys, value \in Values : CallFromCtxWithField(c, key, value)
        \/ \E c \in InputCtxs, fields \in EnrichMaps : CallFromCtxWithFields(c, fields)
        \/ \E c \in InputCtxs, s \in EnrichStructs : CallFromCtxWithStruct(c, s)
        \/ \E c \in InputCtxs, key \in Keys, value \in Values : CallCtxWithField(c, key, value)
        \/ \E c \in InputCtxs, fields \in EnrichMaps : CallCtxWithFields(c, fields)
        \/ \E c \in InputCtxs, s \in EnrichStructs : CallCtxWithStruct(c, s)
        \/ \E c \in InputCtxs, l \in logs : DoWithCtx(c, l)

SpecEnrich == InitEnrich /\ [][NextEnrich]_vars

\* Field propagation down a call chain: the program starts with a logger
\* New made bound to the background context, and each call is made on the
\* context the call before it returned.
InitChain ==
    /\ \E cfg \in Configs :
           /\ logs = {New(cfg)}
           /\ ctxs = WithCtx(<<Background>>, 1, New(cfg)).ctxs
    /\ written = <<>>
    /\ last = [op |-> "none"]
    /\ call = [fn |-> "none"]
    /\ result = [done |-> FALSE]

NextChain ==
    \/ \E key \in Keys, value \in Values : CallCtxWithField(Len(ctxs), key, value)
    \/ \E fields \in FieldMaps : CallCtxWithFields(Len(ctxs), fields)
    \/ \E s \in EnrichStructs : CallCtxWithStruct(Len(ctxs), s)

SpecChain == InitChain /\ [][NextChain]_vars

\* Records emitted along a call chain.  Here written holds the events as the
\* logger hands them to its writer: the JSON object with the fields of the
\* logger in the order they were added, a key once for each time it was added.

\* What a reader of the JSON object gets for each key, as encoding/json
\* fills a map (zerolog's ConsoleWriter reads the event that way): the last
\* member with that key.
Decode(fields) ==
    [k \in {fields[i].key : i \in DOMAIN fields} |->
        LET at == CHOOSE i \in DOMAIN fields :
                      /\ fields[i].key = k
                      /\ \A j \in DOMAIN fields : fields[j].key = k => j <= i
        IN  [enc |-> fields[at].enc, val |-> fields[at].val]]

\* zerowrap.FromCtx(ctx).Info().Msg(msg)
DoInfo(c, msg) ==
    LET l == FromCtx(ctxs, c)
        e == [w |-> l.w, level |-> InfoLevel, hooks |-> l.hooks, message |-> msg,
              fields |-> l.context]
    IN  /\ Len(written) < MaxWritten
        /\ written' = IF should(l, InfoLevel) THEN Append(written, e) ELSE written
        /\ last' = [op |-> "Info", ctx |-> c, msg |-> msg]
        /\ UNCHANGED <<ctxs, logs, call, result>>

NextEmit ==
    \/ NextChain
    \/ \E msg \in Msgs : DoInfo(Len(ctxs), msg)

SpecEmit == InitChain /\ [][NextEmit]_vars

----------------------------------------------------------------------------
\* The telemetry hook at work.  Here call holds the hook, the zero Hook{} or
\* the one NewHook("my-service") makes, and written the records emitted
\* through its telemetry logger.

InitHook ==
    /\ ctxs = <<Background>>
    /\ logs = {}
    /\ written = <<>>
    /\ last = [op |-> "none"]
    /\ result = [done |-> FALSE]
    /\ \E logger \in {"nil", "my-service"} : call = [fn |-> "Hook", arg |-> [logger |-> logger]]

\* zerolog runs the hook for an event of the logger it is attached to
DoRun(e, level, msg) ==
    /\ call.fn = "Hook"
    /\ Len(written) < MaxWritten
    /\ written' = written \o Run(call.arg, e, level, msg)
    /\ last' = [op |-> "Run", ctx |-> e.ctx, level |-> level, msg |-> msg]
    /\ UNCHANGED <<ctxs, logs, call, result>>

NextHook ==
    \E ctx \in {"nil", "background", "request"}, level \in TraceLevel..6, msg \in Msgs :
        DoRun([ctx |-> ctx], level, msg)

SpecHook == InitHook /\ [][NextHook]_vars

----------------------------------------------------------------------------
\* Context binding

\* C1: for every context in which no logger has been bound, FromCtx returns
\* a disabled logger: its level is Disabled and an event at any level is
\* filtered out; the call made by the program returned that logger.
C1_UnboundIsDisabled ==
    /\ \A c \in DOMAIN ctxs :
           ~HasLogger(ctxs, c) =>
               /\ FromCtx(ctxs, c).level = Disabled
               /\ \A lvl \in EventLevels : ~should(FromCtx(ctxs, c), lvl)
    /\ last.op = "FromCtx" /\ ~HasLogger(ctxs, last.ctx) =>
           /\ last.ret.level = Disabled
           /\ \A lvl \in EventLevels : ~should(last.ret, lvl)

\* FromCtx was called on a context without a logger while another context
\* carries an enabled one
C1_Witness ==
    /\ last.op = "FromCtx"
    /\ ~HasLogger(ctxs, last.ctx)
    /\ \E c \in DOMAIN ctxs : HasLogger(ctxs, c) /\ should(FromCtx(ctxs, c), ErrorLevel)

\* what FromCtx returns for the context WithCtx(ctx c, l) returns
RoundTrip(c, l) == LET r == WithCtx(ctxs, c, l) IN FromCtx(r.ctxs, r.ctx)

\* C2 as stated: for every context and every Logger l, of any level and
\* with any attached fields, FromCtx(WithCtx(ctx, l)) has the level and the
\* attached fields of l.
C2_RoundTrip ==
    \A c \in DOMAIN ctxs, l \in logs :
        /\ RoundTrip(c, l).level = l.level
        /\ RoundTrip(c, l).context = l.context

\* C2 amended: FromCtx(WithCtx(ctx, l)) always has the level of l; it is l,
\* with the attached fields of l, when l is not disabled or ctx already
\* carries a logger; when l is disabled and ctx carries none, WithCtx
\* returns ctx itself and FromCtx returns the no-op logger without fields.
C2_RoundTripAmended ==
    \A c \in DOMAIN ctxs, l \in logs :
        /\ RoundTrip(c, l).level = l.level
        /\ l.level # Disabled \/ HasLogger(ctxs, c) => RoundTrip(c, l) = l
        /\ l.level = Disabled /\ ~HasLogger(ctxs, c) =>
               /\ WithCtx(ctxs, c, l).ctx = c
               /\ RoundTrip(c, l) = disabledLogger

\* WithCtx stored a logger with attached fields in a context that already
\* carried another logger, and FromCtx gives it back
C2_Witness ==
    /\ last.op = "WithCtx"
    /\ last.ret # last.ctx
    /\ HasLogger(ctxs, last.ctx)
    /\ last.log.context # <<>>
    /\ FromCtx(ctxs, last.ctx) # last.log
    /\ FromCtx(ctxs, last.ret) = last.log

----------------------------------------------------------------------------
\* Error-wrap helpers

\* the message a helper logs and prefixes: WrapErrf formats it
MessageOf(c) == IF c.op = "WrapErrf" THEN Sprintf(c.format, c.args) ELSE c.msg

\* C3: a call of WrapErr, WrapErrWithFields or WrapErrf with a nil err
\* returns nil and writes no log record.
C3_NilPassesThrough ==
    [][last'.op \in WrapOps /\ last'.err = NilErr =>
           last'.ret = NilErr /\ written' = written]_vars

\* a helper was called with a nil err on a logger that had just written an
\* error record
C3_Witness ==
    /\ last.op \in WrapOps
    /\ last.err = NilErr
    /\ should(last.log, ErrorLevel)
    /\ written # <<>>

\* C4: for a non-nil err with text Y and the message X, each helper returns
\* an error whose text is exactly "X: Y" and which unwraps to err.
C4_WrappedText ==
    last.op \in WrapOps /\ last.err # NilErr =>
        /\ last.ret # NilErr
        /\ ErrorText(last.ret) = MessageOf(last) \o <<58, 32>> \o ErrorText(last.err)
        /\ Unwrap(last.ret) = last.err

\* WrapErrf formatted its message from an argument and wrapped a non-nil err
C4_Witness ==
    /\ last.op = "WrapErrf"
    /\ last.err # NilErr
    /\ last.args # <<>>
    /\ MessageOf(last) # last.format
    /\ Len(ErrorText(last.ret)) > Len(ErrorText(last.err)) + 2

\* C5 as stated: every call of a helper with a non-nil err causes exactly
\* one log emission, on every logger, the disabled one and the ones whose
\* minimum level is above error included.
C5_ExactlyOneEmission ==
    [][last'.op \in WrapOps /\ last'.err # NilErr => Len(written') = Len(written) + 1]_vars

\* the record a helper writes: error severity, the message, and the
\* original error after the fields of the logger
IsErrorRecord(e, c) ==
    /\ e.level = ErrorLevel
    /\ e.message = MessageOf(c)
    /\ e.w = c.log.w
    /\ Len(e.fields) >= Len(c.log.context) + 1
    /\ SubSeq(e.fields, 1, Len(c.log.context)) = c.log.context
    /\ e.fields[Len(e.fields)].key = <<101, 114, 114, 111, 114>>
    /\ e.fields[Len(e.fields)].val = ErrorText(c.err)
    /\ c.op = "WrapErrWithFields" =>
           /\ Len(e.fields) = Len(c.log.context) + Cardinality(DOMAIN c.fields) + 1
           /\ \A k \in DOMAIN c.fields :
                  \E i \in (Len(c.log.context) + 1)..(Len(e.fields) - 1) :
                      e.fields[i].key = k /\ e.fields[i].val = c.fields[k].v
    /\ c.op # "WrapErrWithFields" => Len(e.fields) = Len(c.log.context) + 1

\* C5 amended: a call of a helper with a non-nil err writes exactly one
\* record, at error severity with the original error and the message, when
\* the logger has a writer and its minimum level is error or lower; it
\* writes no record when the logger's minimum level is above error (fatal,
\* panic, disabled: the logger FromCtx returns when none is bound) or the
\* logger has no writer.
C5_OneEmissionIfEnabled ==
    [][last'.op \in WrapOps /\ last'.err # NilErr =>
           IF last'.log.w # <<>> /\ last'.log.level <= ErrorLevel
           THEN /\ Len(written') = Len(written) + 1
                /\ SubSeq(written', 1, Len(written)) = written
                /\ IsErrorRecord(written'[Len(written')], last')
           ELSE written' = written]_vars

\* a helper was called with a non-nil err on the disabled logger of a
\* context without one: the call returned the wrapping error and wrote nothing
C5_Witness ==
    /\ last.op \in WrapOps
    /\ last.err # NilErr
    /\ last.log = FromCtx(ctxs, 1)
    /\ last.ret # NilErr
    /\ written = <<>>

\* a helper wrote its one record on an enabled logger
C5_WitnessEnabled ==
    /\ last.op = "WrapErrWithFields"
    /\ last.err # NilErr
    /\ Cardinality(DOMAIN last.fields) = 2
    /\ last.log.context # <<>>
    /\ Len(written) = 1

----------------------------------------------------------------------------
\* Struct field extraction

\* a tag value up to its first comma
UpToComma(tag) ==
    LET commas == {i \in 1..Len(tag) : tag[i] = 44}
    IN  IF commas = {} THEN tag
        ELSE SubSeq(tag, 1, (CHOOSE i \in commas : \A j \in commas : i <= j) - 1)

\* the struct a call of extractFields looks at: the argument or what it points to
StructArg(s) == IF s.kind = "ptr" /\ ~s.isNil THEN s.elem[1] ELSE s

IsStructArg(s) == StructArg(s).kind = "struct"

\* the name of a member by the stated precedence: the non-empty log tag,
\* else the non-empty json tag up to its first comma, else the snake-cased
\* declared name
StatedName(m) ==
    IF m.log # <<>> THEN m.log
    ELSE IF UpToComma(m.json) # <<>> THEN UpToComma(m.json)
    ELSE toSnakeCase(m.Name)

\* the argument without the members whose name resolves to "-"
WithoutSentinels(s) ==
    LET keep(m) == StatedName(m) # <<45>>
    IN  IF s.kind = "struct" THEN [s EXCEPT !.members = SelectSeq(@, keep)]
        ELSE IF IsStructArg(s)
             THEN [s EXCEPT !.elem = <<[s.elem[1] EXCEPT !.members = SelectSeq(@, keep)]>>]
        ELSE s

\* C6: a member whose resolved name is the sentinel "-" never appears in the
\* result of extractFields: "-" is no key of the mapping, and the mapping is
\* the one the same struct gives without its sentinel members.
C6_SentinelExcluded ==
    call.fn = "extractFields" /\ result.done =>
        /\ ~result.val.panicked
        /\ <<45>> \notin DOMAIN result.val.fields
        /\ result.val.fields = extractFields(WithoutSentinels(call.arg)).fields

\* extraction ran on a struct with an exported, non-nil member tagged
\* log:"-" next to a member that was extracted
C6_Witness ==
    /\ call.fn = "extractFields" /\ result.done
    /\ IsStructArg(call.arg)
    /\ \E i \in DOMAIN StructArg(call.arg).members :
           LET m == StructArg(call.arg).members[i]
           IN  m.log = <<45>> /\ IsExported(m) /\ ~m.isNil
    /\ result.val.fields # EmptyFields

\* C7: extractFields returns an empty mapping and does not fail for a nil
\* pointer and for any value that is not a struct or a pointer to one.
C7_NoStructNoFields ==
    call.fn = "extractFields" /\ result.done /\ ~IsStructArg(call.arg) =>
        /\ ~result.val.panicked
        /\ DOMAIN result.val.fields = {}

\* extraction ran on a nil pointer
C7_Witness ==
    /\ call.fn = "extractFields" /\ result.done
    /\ call.arg.kind = "ptr" /\ call.arg.isNil
    /\ ~result.val.panicked

\* the members of a struct that extraction emits
Emitted(m) ==
    /\ IsExported(m)
    /\ StatedName(m) # <<45>>
    /\ ~((m.kind = "ptr" \/ m.kind = "interface") /\ m.isNil)

\* C8: every exported member is keyed by its name in the stated precedence
\* (log tag, json tag up to its first comma, snake-cased declared name): the
\* keys of the mapping are these names of the emitted members, and a key
\* holds the value of the last member that resolves to it.
C8_NamePrecedence ==
    call.fn = "extractFields" /\ result.done /\ IsStructArg(call.arg) =>
        LET ms == StructArg(call.arg).members
            fields == result.val.fields
        IN  /\ DOMAIN fields = {StatedName(ms[i]) : i \in {j \in DOMAIN ms : Emitted(ms[j])}}
            /\ \A i \in DOMAIN ms :
                   /\ Emitted(ms[i])
                   /\ \A j \in DOMAIN ms :
                          j > i /\ Emitted(ms[j]) => StatedName(ms[j]) # StatedName(ms[i])
                   => fields[StatedName(ms[i])] = ms[i].val

\* extraction ran on a struct with a member carrying both tags, keyed by
\* its log tag, and a member whose json tag has only options, keyed by its
\* snake-cased name
C8_Witness ==
    /\ call.fn = "extractFields" /\ result.done
    /\ IsStructArg(call.arg)
    /\ Len(StructArg(call.arg).members) = 2
    /\ LET m == StructArg(call.arg).members[1]
       IN  /\ m.log = s_uid /\ m.json = s_j_omit /\ IsExported(m) /\ ~m.isNil
           /\ s_uid \in DOMAIN result.val.fields
           /\ s_j \notin DOMAIN result.val.fields
    /\ LET m == StructArg(call.arg).members[2]
       IN  /\ m.log = s_empty /\ m.json = s_omit /\ IsExported(m) /\ ~m.isNil
           /\ s_user_i_d \in DOMAIN result.val.fields

----------------------------------------------------------------------------
\* Snake case

\* an uppercase letter: 'A'..'Z', or the capital E acute
IsUpperLetter(r) == (r >= 65 /\ r <= 90) \/ r = 201

\* an ASCII uppercase letter, 'A'..'Z'
IsUpperASCII(r) == r >= 65 /\ r <= 90

\* the non-initial positions of s that hold a rune of the given class
NonInitial(s, upper(_)) == {i \in 2..Len(s) : upper(s[i])}

\* C9 as stated: the output of toSnakeCase has the length of the input plus
\* the number of its non-initial uppercase letters and contains no
\* uppercase letter.
C9_SnakeCase ==
    call.fn = "toSnakeCase" /\ result.done =>
        /\ Len(result.val) = Len(call.arg) + Cardinality(NonInitial(call.arg, IsUpperLetter))
        /\ \A j \in DOMAIN result.val : ~IsUpperLetter(result.val[j])

\* C9 amended: toSnakeCase inserts one '_' before every ASCII uppercase
\* letter ('A'..'Z') that is not the first character and lowercases every
\* ASCII uppercase letter, leaving every other character as it is: the
\* output has the length of the input plus the number of its non-initial
\* ASCII uppercase letters and contains no ASCII uppercase letter;
\* "UserID" gives "user_i_d", "RequestID" "request_i_d", "IP" "i_p".
C9_SnakeCaseASCII ==
    call.fn = "toSnakeCase" /\ result.done =>
        LET in == call.arg
            out == result.val
            \* where the rune at i of the input lands in the output
            at(i) == i + Cardinality({k \in NonInitial(in, IsUpperASCII) : k <= i})
        IN  /\ Len(out) = Len(in) + Cardinality(NonInitial(in, IsUpperASCII))
            /\ \A j \in DOMAIN out : ~IsUpperASCII(out[j])
            /\ \A i \in DOMAIN in :
                   /\ out[at(i)] = IF IsUpperASCII(in[i]) THEN in[i] + 32 ELSE in[i]
                   /\ i > 1 /\ IsUpperASCII(in[i]) => out[at(i) - 1] = 95
            /\ in = s_UserID => out = s_user_i_d
            /\ in = s_RequestID => out = s_request_i_d
            /\ in = s_IP => out = s_i_p

\* "UserID" was converted
C9_Witness ==
    /\ call.fn = "toSnakeCase" /\ result.done
    /\ call.arg = s_UserID
    /\ result.val = s_user_i_d

----------------------------------------------------------------------------
\* Level names

\* s spells the lowercase word in some mix of letter cases
SpellsIn(s, word) ==
    /\ Len(s) = Len(word)
    /\ \A i \in DOMAIN s : s[i] = word[i] \/ s[i] = word[i] - 32

\* C10: level-name parsing is case-insensitive and total: the nine names,
\* in any letter case, map to their level, "warning" to the level of
\* "warn", and every other string, the empty one included, to info.
C10_ParseLevel ==
    call.fn = "parseLevel" /\ result.done =>
        LET s == call.arg IN
        result.val = CASE SpellsIn(s, s_trace) -> TraceLevel
                       [] SpellsIn(s, s_debug) -> DebugLevel
                       [] SpellsIn(s, s_info) -> InfoLevel
                       [] SpellsIn(s, s_warn) -> WarnLevel
                       [] SpellsIn(s, s_warning) -> WarnLevel
                       [] SpellsIn(s, s_error) -> ErrorLevel
                       [] SpellsIn(s, s_fatal) -> FatalLevel
                       [] SpellsIn(s, s_panic) -> PanicLevel
                       [] SpellsIn(s, s_disabled) -> Disabled
                       [] OTHER -> InfoLevel

\* "WARNING" in capitals was parsed to the level of "warn"
C10_Witness ==
    /\ call.fn = "parseLevel" /\ result.done
    /\ call.arg = <<87, 65, 82, 78, 73, 78, 71>>
    /\ result.val = WarnLevel

----------------------------------------------------------------------------
\* Logger construction

\* the writer of a handle is one console formatter over out
IsConsoleOver(l, out, timeFormat) ==
    l.w = <<[kind |-> "console", Out |-> out, TimeFormat |-> timeFormat]>>

\* neither environment variable of the prefix has a value
BothMissing(env, prefix) ==
    /\ Getenv(env, prefix \o s_LOG_LEVEL) = s_empty
    /\ Getenv(env, prefix \o s_LOG_FORMAT) = s_empty

\* C11: a Config whose Level and Format are both empty makes New return the
\* logger it returns for Level "info" and Format "console": minimum level
\* info and one console formatter over the output; Default() and NewFromEnv
\* with both environment variables missing return that same logger over
\* stderr with the RFC3339 time format.
C11_EmptyIsInfoConsole ==
    /\ call.fn = "New" /\ result.done /\ call.arg.Level = s_empty /\ call.arg.Format = s_empty =>
           /\ result.val.level = InfoLevel
           /\ IsConsoleOver(result.val,
                  IF call.arg.Output = "nil" THEN Stderr ELSE call.arg.Output,
                  IF call.arg.TimeFormat = "" THEN RFC3339 ELSE call.arg.TimeFormat)
           /\ result.val = New([call.arg EXCEPT !.Level = s_info, !.Format = s_console])
    /\ call.fn = "Default" /\ result.done =>
           /\ result.val.level = InfoLevel
           /\ IsConsoleOver(result.val, Stderr, RFC3339)
           /\ result.val = New(Config(s_empty, s_empty))
    /\ call.fn = "NewFromEnv" /\ result.done /\ BothMissing(call.arg.env, call.arg.prefix) =>
           /\ result.val.level = InfoLevel
           /\ IsConsoleOver(result.val, Stderr, RFC3339)
           /\ result.val = Default

C11_Witness ==
    /\ call.fn = "NewFromEnv" /\ result.done
    /\ call.arg.prefix = s_MYAPP /\ call.arg.env = <<>>
    /\ result.val.level = InfoLevel

C11_WitnessNew ==
    /\ call.fn = "New" /\ result.done
    /\ call.arg.Level = s_empty /\ call.arg.Format = s_empty /\ call.arg.Output = "stdout"
    /\ result.val.w[1].kind = "console"

\* C12: a Config whose Format is invalid (not empty and, whatever the letter
\* case, neither "console" nor "json") makes New fall back to "console": the
\* output is wrapped in the console formatter exactly as for an empty Format.
C12_InvalidFormatIsConsole ==
    /\ call.fn = "New" /\ result.done
    /\ call.arg.Format # s_empty
    /\ ToLower(call.arg.Format) \notin {s_console, s_json}
    => /\ result.val.w[1].kind = "console"
       /\ result.val = New([call.arg EXCEPT !.Format = s_empty])

\* C13: when the FileConfig has Enabled false or an empty Path, NewWithFile
\* returns the logger New(config) returns, a nil error and a cleanup function
\* that does nothing however often it is called: no file writer exists before
\* or after a call and nothing the program holds changes.
C13_FileDisabledIsNew ==
    [][LET fileCfg == call.arg.fileCfg
       IN  ~fileCfg.Enabled \/ fileCfg.Path = "" =>
               /\ result'.done =>
                      /\ result'.val.logger = New(call.arg.cfg)
                      /\ result'.val.err = "nil"
                      /\ result'.val.file = <<>>
               /\ result.done /\ last'.op = "cleanup" =>
                      /\ result' = result
                      /\ written' = written]_vars

\* the no-op cleanup function has been called twice in a row
C13_Witness ==
    /\ call.fn = "NewWithFile" /\ result.done
    /\ call.arg.fileCfg.Enabled /\ call.arg.fileCfg.Path = ""
    /\ last.op = "cleanup" /\ last.n = 2
    /\ result.val.file = <<>>

\* C14: when Enabled is true and Path is not empty, the file writer is made
\* with MaxSize 100, MaxBackups 3 and MaxAge 28 in place of a zero field,
\* each whatever the other two are, and with every non-zero value as given;
\* Path and Compress are passed on.
C14_FileDefaults ==
    LET fileCfg == call.arg.fileCfg
    IN  call.fn = "NewWithFile" /\ result.done /\ fileCfg.Enabled /\ fileCfg.Path # "" =>
            /\ Len(result.val.file) = 1
            /\ LET f == result.val.file[1]
               IN  /\ f.MaxSize = IF fileCfg.MaxSize = 0 THEN 100 ELSE fileCfg.MaxSize
                   /\ f.MaxBackups = IF fileCfg.MaxBackups = 0 THEN 3 ELSE fileCfg.MaxBackups
                   /\ f.MaxAge = IF fileCfg.MaxAge = 0 THEN 28 ELSE fileCfg.MaxAge
                   /\ f.Filename = fileCfg.Path
                   /\ f.Compress = fileCfg.Compress

\* a file writer made with one default (the age) and two given values
C14_Witness ==
    /\ call.fn = "NewWithFile" /\ result.done
    /\ call.arg.fileCfg.Enabled /\ call.arg.fileCfg.Path = "app.log"
    /\ call.arg.fileCfg.MaxSize = 50 /\ call.arg.fileCfg.MaxBackups = 5
    /\ call.arg.fileCfg.MaxAge = 0
    /\ result.val.file[1].MaxAge = 28

\* the format of the configuration asks for the console formatter
WantsConsole(cfg) == ToLower(cfg.Format) \in {s_console, s_empty}

\* C15: with file logging enabled, every event the logger lets through is
\* written once to each of the two sinks, the console output first and the
\* file second; the file always receives the JSON line, whatever Format is,
\* and the console output receives console text exactly when Format is
\* "console" (in any letter case) or empty, the JSON line otherwise.
C15_BothSinks ==
    [][LET cfg == call.arg.cfg
           fileCfg == call.arg.fileCfg
           l == result.val.logger
           new == SubSeq(written', Len(written) + 1, Len(written'))
       IN  result.done /\ fileCfg.Enabled /\ fileCfg.Path # "" /\ last'.op = "Log" =>
               IF should(l, last'.level)
               THEN /\ Len(new) = 2
                    /\ new[1].to.kind \in {"console", "raw"}
                    /\ new[1].to.Out = Stderr
                    /\ new[1].text = IF WantsConsole(cfg) THEN "console" ELSE "json"
                    /\ new[2].to.kind = "file"
                    /\ new[2].to.Out = fileCfg.Path
                    /\ new[2].text = "json"
                    /\ \A i \in 1..2 : new[i].level = last'.level
               ELSE new = <<>>]_vars

\* an error event reached the console as text and the file as JSON
C15_Witness ==
    /\ call.fn = "NewWithFile" /\ result.done
    /\ call.arg.fileCfg.Enabled /\ call.arg.fileCfg.Path = "app.log"
    /\ call.arg.cfg.Format = s_empty
    /\ last.op = "Log" /\ last.level = ErrorLevel
    /\ Len(written) = 2
    /\ written[1].text = "console" /\ written[2].text = "json"

----------------------------------------------------------------------------
\* Telemetry bridge

\* the levels the switch of levelToOTel names
TableLevels == TraceLevel..PanicLevel

\* C16: levelToOTel follows its table (trace, debug, info, warn, error and
\* fatal go to the severity of the same name, panic to a tier other than and
\* above the one of fatal), a higher level of the table never gets a lower
\* or equal severity, and every level, in the table or not, gets a severity
\* of the SDK.
C16_LevelTable ==
    call.fn = "levelToOTel" /\ result.done =>
        LET level == call.arg
            sev == result.val
        IN  /\ level = TraceLevel => sev = SeverityTrace
            /\ level = DebugLevel => sev = SeverityDebug
            /\ level = InfoLevel => sev = SeverityInfo
            /\ level = WarnLevel => sev = SeverityWarn
            /\ level = ErrorLevel => sev = SeverityError
            /\ level = FatalLevel => sev = SeverityFatal
            /\ level = PanicLevel => sev # SeverityFatal /\ sev > SeverityFatal
            /\ level \in TableLevels =>
                   \A other \in TableLevels :
                       /\ other < level => levelToOTel(other) < sev
                       /\ other > level => levelToOTel(other) > sev
            /\ sev \in Severities

\* the severity of a level outside the table has been computed
C16_Witness ==
    /\ call.fn = "levelToOTel" /\ result.done
    /\ call.arg = Disabled
    /\ result.val = SeverityInfo

\* C17 as stated: a panic-level event is mapped to the highest-but-one tier
\* of the SDK, not to the highest tier and not to the tier of fatal.
C17_PanicHighestButOne ==
    call.fn = "levelToOTel" /\ result.done /\ call.arg = PanicLevel =>
        /\ result.val + 1 \in Severities
        /\ \A s \in Severities : s <= result.val + 1
        /\ result.val # SeverityFatal

\* C17: a panic-level event is mapped to SeverityFatal4, the highest tier of
\* the SDK (no tier is above it), which is not the tier of fatal and is above
\* the severity of every other level.
C17_PanicHighest ==
    call.fn = "levelToOTel" /\ result.done /\ call.arg = PanicLevel =>
        /\ result.val = SeverityFatal4
        /\ result.val \in Severities
        /\ \A s \in Severities : s <= result.val
        /\ result.val # SeverityFatal
        /\ \A other \in OTelLevels \ {PanicLevel} : levelToOTel(other) < result.val

C17_Witness ==
    /\ call.fn = "levelToOTel" /\ result.done
    /\ call.arg = PanicLevel
    /\ result.val = 24

\* the name zerolog gives a level, the empty name for NoLevel
LevelName(level) ==
    CASE level = TraceLevel -> s_trace
      [] level = DebugLevel -> s_debug
      [] level = InfoLevel -> s_info
      [] level = WarnLevel -> s_warn
      [] level = ErrorLevel -> s_error
      [] level = FatalLevel -> s_fatal
      [] level = PanicLevel -> s_panic
      [] OTHER -> s_empty

\* C18: for every event passed to Run, a hook without a telemetry logger
\* emits nothing; any other hook emits exactly one record through its
\* logger, with the message as body, levelToOTel(level) as severity and the
\* name of the level as severity text, under the context of the event, or
\* the background context when the event has none.
C18_RunEmitsOne ==
    [][last'.op = "Run" =>
          IF call.arg.logger = "nil"
          THEN written' = written
          ELSE /\ Len(written') = Len(written) + 1
               /\ SubSeq(written', 1, Len(written)) = written
               /\ LET record == written'[Len(written')]
                  IN  /\ record.logger = call.arg.logger
                      /\ record.body = last'.msg
                      /\ record.severity = levelToOTel(last'.level)
                      /\ record.text = LevelName(last'.level)
                      /\ record.ctx = IF last'.ctx = "nil" THEN "background" ELSE last'.ctx]_vars

\* a panic event without a context was emitted under the background context
C18_Witness ==
    /\ call.fn = "Hook" /\ call.arg.logger = "my-service"
    /\ last.op = "Run" /\ last.ctx = "nil" /\ last.level = PanicLevel
    /\ Len(written) = 1
    /\ written[1].ctx = "background" /\ written[1].severity = SeverityFatal4

----------------------------------------------------------------------------
\* Field enrichment and propagation

\* r is b with the entries of fields added after the fields of b, each once,
\* in some order, and nothing else: same level, same sinks, same hooks
CarriesPlus(r, b, fields) ==
    /\ r.level = b.level /\ r.w = b.w /\ r.hooks = b.hooks
    /\ Len(r.context) = Len(b.context) + Cardinality(DOMAIN fields)
    /\ SubSeq(r.context, 1, Len(b.context)) = b.context
    /\ \A k \in DOMAIN fields :
           \E i \in (Len(b.context) + 1)..Len(r.context) :
               r.context[i] = [key |-> k, enc |-> Encoder(fields[k].type), val |-> fields[k].v]

LoggerOps == {"WithField", "WithFields", "WithStruct"}

FromCtxOps == {"FromCtxWithField", "FromCtxWithFields", "FromCtxWithStruct"}

CtxOps == {"CtxWithField", "CtxWithFields", "CtxWithStruct"}

\* no call changes what the program already holds: the base logger handle
\* keeps its level and fields, every context stays as it is and FromCtx
\* returns for it the logger it returned before
InputsKept ==
    /\ logs' = logs
    /\ \A c \in DOMAIN ctxs :
           /\ c \in DOMAIN ctxs'
           /\ ctxs'[c] = ctxs[c]
           /\ FromCtx(ctxs', c) = FromCtx(ctxs, c)

\* the logger a logger-returning helper returned is its base with the
\* fields of the call
LoggerResultOk ==
    /\ last'.op \in LoggerOps => CarriesPlus(last'.ret, last'.log, last'.fields)
    /\ last'.op \in FromCtxOps =>
           CarriesPlus(last'.ret, FromCtx(ctxs, last'.ctx), last'.fields)

\* C19 as stated: whatever calls are made on the base logger and the input
\* contexts, in whatever order, the base logger and the input contexts stay
\* as they were, and the result of each call holds the fields of its base
\* and the fields of the call: the logger returned, or the logger FromCtx
\* returns for the context returned.
C19_NoMutation ==
    [][/\ InputsKept
       /\ LoggerResultOk
       /\ last'.op \in CtxOps =>
              CarriesPlus(FromCtx(ctxs', last'.ret), FromCtx(ctxs, last'.ctx), last'.fields)
       /\ last'.op = "WithCtx" => FromCtx(ctxs', last'.ret) = last'.log]_vars

\* C19: the same, except where WithCtx stores nothing: a disabled logger is
\* not stored in a context that carries no logger, so CtxWithField,
\* CtxWithFields and CtxWithStruct called on such a context (whose logger
\* is the disabled one) and WithCtx called on it with a disabled logger
\* return the context they were given, and FromCtx returns for it the
\* disabled logger without any field.
C19_NoMutationAmended ==
    [][/\ InputsKept
       /\ LoggerResultOk
       /\ last'.op \in CtxOps =>
              IF HasLogger(ctxs, last'.ctx)
              THEN CarriesPlus(FromCtx(ctxs', last'.ret), FromCtx(ctxs, last'.ctx),
                               last'.fields)
              ELSE /\ last'.ret = last'.ctx
                   /\ ctxs' = ctxs
                   /\ FromCtx(ctxs', last'.ret) = disabledLogger
       /\ last'.op = "WithCtx" =>
              IF HasLogger(ctxs, last'.ctx) \/ last'.log.level # Disabled
              THEN FromCtx(ctxs', last'.ret) = last'.log
              ELSE /\ last'.ret = last'.ctx
                   /\ ctxs' = ctxs
                   /\ FromCtx(ctxs', last'.ret) = disabledLogger]_vars

\* two contexts were derived from the context of a base logger with one
\* field, the second by CtxWithFields: it carries three fields, the input
\* context still one
C19_Witness ==
    /\ Len(ctxs) = 4
    /\ ctxs[3].parent = 2 /\ ctxs[4].parent = 2
    /\ last.op = "CtxWithFields" /\ last.ctx = 2 /\ last.ret = 4
    /\ Len(FromCtx(ctxs, 2).context) = 1
    /\ Len(FromCtx(ctxs, 4).context) = 3
    /\ FromCtx(ctxs, 2) \in logs

\* the contexts of a call chain, from the one the program started with
Chain == 2..Len(ctxs)

\* C20: when a context carries an enabled logger, each of CtxWithField,
\* CtxWithFields and CtxWithStruct applied to it returns a context that
\* carries a logger with the fields of that logger followed by the fields of
\* the call, at the same level and with the same sinks; so along a chain of
\* such calls, each made on the result of the one before, the logger of the
\* last context holds the original fields and every field added by every
\* call, and keeps the level and the sinks of the original logger.
C20_Propagation ==
    [][last'.op \in CtxOps /\ HasLogger(ctxs, last'.ctx)
          /\ FromCtx(ctxs, last'.ctx).level # Disabled =>
          LET final == FromCtx(ctxs', last'.ret)
          IN  /\ HasLogger(ctxs', last'.ret)
              /\ CarriesPlus(final, FromCtx(ctxs, last'.ctx), last'.fields)
              /\ \A c \in Chain :
                     LET earlier == FromCtx(ctxs, c)
                     IN  /\ final.level = earlier.level
                         /\ final.w = earlier.w
                         /\ Len(earlier.context) <= Len(final.context)
                         /\ SubSeq(final.context, 1, Len(earlier.context)) = earlier.context
              /\ \A l \in logs : final.level = l.level /\ final.w = l.w]_vars

\* a chain of two calls on a debug logger: two fields from a map, then one
\* from a struct
C20_Witness ==
    /\ Len(ctxs) = 4
    /\ ctxs[3].parent = 2 /\ ctxs[4].parent = 3
    /\ last.op = "CtxWithStruct" /\ last.ctx = 3 /\ last.ret = 4
    /\ FromCtx(ctxs, 2).level = DebugLevel
    /\ Len(FromCtx(ctxs, 3).context) = 2
    /\ Len(FromCtx(ctxs, 4).context) = 3
    /\ FromCtx(ctxs, 4).context[3].key = s_uid

\* the later of two entries of fields with the key k
LastOf(fields, k) ==
    CHOOSE i \in DOMAIN fields :
        fields[i].key = k /\ \A j \in DOMAIN fields : fields[j].key = k => j <= i

\* b with the field added by a later call: every entry of b is kept where it
\* was, a key b already has is added again, and a reader of the fields gets
\* the value of the later call for the key
Shadows(r, b, fields) ==
    /\ Len(r.context) = Len(b.context) + Cardinality(DOMAIN fields)
    /\ SubSeq(r.context, 1, Len(b.context)) = b.context
    /\ \A k \in DOMAIN fields :
           /\ LastOf(r.context, k) > Len(b.context)
           /\ Decode(r.context)[k] = [enc |-> Encoder(fields[k].type), val |-> fields[k].v]

====
